---- MODULE Spec2Model ----
(***************************************************************************)
(* The exclusion-mask tutorial docs/tutorials/exclusion_mask.ipynb as a    *)
(* state machine.  The variables are the names the notebook binds, one     *)
(* action per code cell.                                                   *)
(*                                                                         *)
(* Sky coordinates are integers in units of half a pixel (binsz / 2), so   *)
(* that pixel centres of grids with an even and with an odd number of      *)
(* pixels are both integral.  Lengths (radius, width, height) use the same *)
(* unit.                                                                   *)
(***************************************************************************)
EXTENDS Integers, Sequences, FiniteSets, TLC

VARIABLES pc, geom, some_region, crab_region, regions, mask_map, fgl,
          inside_geom, idx, exclusion_radius, mask_map_catalog, raised,
          sqrt_ts, threshold, mask_map_significance, invalid_pixels,
          mask_map_int, fits

vars == <<pc, geom, some_region, crab_region, regions, mask_map, fgl,
          inside_geom, idx, exclusion_radius, mask_map_catalog, raised,
          sqrt_ts, threshold, mask_map_significance, invalid_pixels,
          mask_map_int, fits>>

\* ------------------------------------------------------------- bounds
\* Largest number of pixels along one axis of a grid.
MaxNpix == 2
\* Largest number of cells of a grid.
MaxCells == 4
\* Largest number of sources in a catalog.
MaxSources == 2
\* Significance values and thresholds range over Threshold +- MaxDelta.
MaxDelta == 1

\* The 5 sigma threshold of the tutorial.
Threshold == 5

\* A name the notebook has not bound yet.
None == "None"

Abs(x) == IF x < 0 THEN -x ELSE x

\* ----------------------------------------------------------- geometry
\* Pointing positions, in pixels (the notebook's `position`).
SkyDirs == {<<0, 0>>, <<1, 0>>}

\* WcsGeom.create(skydir, width, binsz): width / binsz pixels per axis,
\* centred on skydir.  binsz is the unit of length, so npix = width.
WcsGeom_create(skydir, width) == [skydir |-> skydir, npix |-> width]

\* The grids the model enumerates.
Geoms ==
    {g \in {WcsGeom_create(s, w) :
                s \in SkyDirs, w \in (1..MaxNpix) \X (1..MaxNpix)} :
        g.npix[1] * g.npix[2] <= MaxCells}

\* WcsGeom.get_idx: the pixel indices of the grid.
get_idx(g) == (0..(g.npix[1] - 1)) \X (0..(g.npix[2] - 1))

\* The sky position (half-pixel units) of the centre of pixel p: the
\* reference pixel (npix - 1) / 2 sits on skydir.
pix_to_coord(g, p) ==
    <<2 * g.skydir[1] + 2 * p[1] + 1 - g.npix[1],
      2 * g.skydir[2] + 2 * p[2] + 1 - g.npix[2]>>

\* WcsGeom.contains: the position falls on a pixel of the grid
\* (-0.5 <= pix < npix - 0.5 on both axes).
geom_contains(g, pos) ==
    LET dx == pos[1] - 2 * g.skydir[1]
        dy == pos[2] - 2 * g.skydir[2]
    IN  /\ -g.npix[1] <= dx /\ dx < g.npix[1]
        /\ -g.npix[2] <= dy /\ dy < g.npix[2]

\* ------------------------------------------------------------ regions
CircleSkyRegion(center, radius) ==
    [shape |-> "circle", center |-> center, radius |-> radius,
     width |-> 0, height |-> 0, angle |-> 0]

\* make_region("...;box(x, y, width, height, angle)")
BoxSkyRegion(center, width, height, angle) ==
    [shape |-> "box", center |-> center, radius |-> 0,
     width |-> width, height |-> height, angle |-> angle]

\* Region.contains(position).  A box is rotated by 0 or 45 degrees:
\* at 45 degrees |dx + dy| / sqrt(2) < width / 2 is 2 (dx + dy)^2 < width^2.
region_contains(r, pos) ==
    LET dx == pos[1] - r.center[1]
        dy == pos[2] - r.center[2]
    IN  IF r.shape = "circle"
        THEN dx * dx + dy * dy < r.radius * r.radius
        ELSE IF r.angle = 0
        THEN 2 * Abs(dx) < r.width /\ 2 * Abs(dy) < r.height
        ELSE /\ 2 * (dx + dy) * (dx + dy) < r.width * r.width
             /\ 2 * (dx - dy) * (dx - dy) < r.height * r.height

\* The loop of WcsGeom.region_mask over the first n regions, at pixel p:
\* mask = zeros; for region in regions: mask += region.contains(coords).
RECURSIVE mask_accumulate(_, _, _, _)
mask_accumulate(g, regs, p, n) ==
    IF n = 0
    THEN FALSE
    ELSE mask_accumulate(g, regs, p, n - 1)
            \/ region_contains(regs[n], pix_to_coord(g, p))

\* WcsGeom.region_mask(regions, inside): inside=False inverts the mask.
region_mask(g, regs, inside) ==
    [p \in get_idx(g) |->
        IF inside
        THEN mask_accumulate(g, regs, p, Len(regs))
        ELSE ~mask_accumulate(g, regs, p, Len(regs))]

\* --------------------------------------------------------------- maps
\* Map.from_geom(geom, data=mask_data): a map of boolean cells.
Map_from_geom(g, data) == [geom |-> g, dtype |-> "bool", data |-> data]

\* A boolean cell as the number it multiplies as.
bool_as_number(b) == IF b THEN 1 ELSE 0

\* numpy.multiply on two boolean cells: the product of the 0/1 values,
\* as a boolean.
np_multiply(a, b) == bool_as_number(a) * bool_as_number(b) # 0

\* Map.__imul__(self, other): the geometries are compared first; on a
\* mismatch the operation raises and self is left as it was.
Map__imul__(self, other) ==
    IF self.geom = other.geom
    THEN [raised |-> "none",
          value |-> [self EXCEPT !.data =
                        [p \in get_idx(self.geom) |->
                            np_multiply(self.data[p], other.data[p])]]]
    ELSE [raised |-> "ShapeMismatch", value |-> self]

\* numpy.where(flags)[0]: the 0-based indices of the true entries of the
\* first n flags, ascending.
RECURSIVE np_where(_, _)
np_where(flags, n) ==
    IF n = 0
    THEN <<>>
    ELSE IF flags[n]
    THEN Append(np_where(flags, n - 1), n - 1)
    ELSE np_where(flags, n - 1)

\* A cell of a float map: a number or NaN.
Float(x) == [isnan |-> FALSE, val |-> x]
NaN == [isnan |-> TRUE, val |-> 0]

\* numpy's v < t on a float cell and a scalar: False when v is NaN.
np_less(v, t) == IF v.isnan THEN FALSE ELSE v.val < t

\* numpy.isnan on a float cell.
np_isnan(v) == v.isnan

\* Map.copy(): a map of its own with the same geometry and cells.
Map_copy(m) == [geom |-> m.geom, dtype |-> m.dtype, data |-> m.data]

\* data.astype(int) on a boolean map: True is 1, False is 0.
astype_int(m) ==
    [m EXCEPT !.dtype = "int",
              !.data = [p \in get_idx(m.geom) |->
                            IF m.dtype = "bool"
                            THEN bool_as_number(m.data[p])
                            ELSE m.data[p]]]

\* data.astype(bool) on an integer map: nonzero is True.
astype_bool(m) ==
    [m EXCEPT !.dtype = "bool",
              !.data = [p \in get_idx(m.geom) |->
                            IF m.dtype = "int" THEN m.data[p] # 0
                            ELSE m.data[p]]]

\* Map.write: the file holds the grid's description and the cells of an
\* integer map in row order, the first axis running fastest.
Map_write(m) ==
    [naxis |-> m.geom.npix,
     crval |-> m.geom.skydir,
     data |-> [n \in 1..(m.geom.npix[1] * m.geom.npix[2]) |->
                  m.data[<<(n - 1) % m.geom.npix[1],
                           (n - 1) \div m.geom.npix[1]>>]]]

\* Map.read: the integer map a file describes.
Map_read(f) ==
    [geom |-> WcsGeom_create(f.crval, f.naxis),
     dtype |-> "int",
     data |-> [p \in (0..(f.naxis[1] - 1)) \X (0..(f.naxis[2] - 1)) |->
                  f.data[1 + p[1] + f.naxis[1] * p[2]]]]

\* ------------------------------------------------------------- inputs
SeqsUpTo(S, n) == UNION {[1..k -> S] : k \in 0..n}

\* Angular radii (half-pixel units): one pixel and two pixels.
Radii == {2, 4}

\* The boxes make_region may be given (the notebook's some_region).
Boxes ==
    {BoxSkyRegion(<<0, 0>>, wh[1], wh[2], a) :
        wh \in {<<4, 2>>, <<2, 6>>}, a \in {0, 45}}

\* The circles make_region may be given (the notebook's crab_region,
\* centred on a pointing position).
Circles ==
    {CircleSkyRegion(<<2 * s[1], 2 * s[2]>>, r) : s \in SkyDirs, r \in Radii}

\* Source positions of a catalog: on the first pointing, one pixel east
\* of it, half a pixel north-west of it, and far away.
CatalogPositions == {<<0, 0>>, <<2, 0>>, <<-1, 1>>, <<6, 6>>}

Catalogs == {[positions |-> ps] : ps \in SeqsUpTo(CatalogPositions, MaxSources)}

\* Significance levels around the threshold.
Levels == (Threshold - MaxDelta)..(Threshold + MaxDelta)

\* The sqrt_ts maps an estimator may return: a level or NaN per cell.
FloatMaps ==
    UNION {{[geom |-> g, dtype |-> "float", data |-> d] :
                d \in [get_idx(g) -> {Float(x) : x \in Levels} \cup {NaN}]} :
              g \in Geoms}

\* ------------------------------------------------------------ actions
sigVars == <<sqrt_ts, threshold, mask_map_significance, invalid_pixels>>
ioVars == <<mask_map_int, fits>>
catalogVars == <<fgl, inside_geom, idx, exclusion_radius>>

\* position = SkyCoord(...); geom = WcsGeom.create(skydir=position, ...)
DefineGeometry ==
    /\ pc = "geometry"
    /\ \E s \in SkyDirs, w \in (1..MaxNpix) \X (1..MaxNpix) :
          /\ WcsGeom_create(s, w) \in Geoms
          /\ geom' = WcsGeom_create(s, w)
    /\ pc' = "regions"
    /\ UNCHANGED <<some_region, crab_region, regions, mask_map,
                   mask_map_catalog, raised, catalogVars, sigVars, ioVars>>

\* some_region = make_region(box); crab_region = make_region(circle);
\* regions = [some_region, crab_region]
CreateRegions ==
    /\ pc = "regions"
    /\ \E b \in Boxes, c \in Circles :
          /\ some_region' = b
          /\ crab_region' = c
          /\ regions' = <<b, c>>
    /\ pc' = "mask"
    /\ UNCHANGED <<geom, mask_map, mask_map_catalog, raised, catalogVars,
                   sigVars, ioVars>>

\* A slip of CreateMaskMap: the inside flag left at its default.
CreateMaskMapInside ==
    /\ pc = "mask"
    /\ mask_map' = Map_from_geom(geom, region_mask(geom, regions, TRUE))
    /\ pc' = "catalog"
    /\ UNCHANGED <<geom, some_region, crab_region, regions,
                   mask_map_catalog, raised, catalogVars, sigVars, ioVars>>

\* mask_data = geom.region_mask(regions, inside=False)
\* mask_map = Map.from_geom(geom, data=mask_data)
CreateMaskMap ==
    /\ pc = "mask"
    /\ mask_map' = Map_from_geom(geom, region_mask(geom, regions, FALSE))
    /\ pc' = "catalog"
    /\ UNCHANGED <<geom, some_region, crab_region, regions,
                   mask_map_catalog, raised, catalogVars, sigVars, ioVars>>

\* fgl = CATALOG_REGISTRY.get_cls("4fgl")()
LoadCatalog ==
    /\ pc = "catalog"
    /\ \E c \in Catalogs : fgl' = c
    /\ pc' = "select"
    /\ UNCHANGED <<geom, some_region, crab_region, regions, mask_map,
                   mask_map_catalog, raised, inside_geom, idx,
                   exclusion_radius, sigVars, ioVars>>

\* A slip of SelectSources: every source is kept.
SelectSourcesAll ==
    /\ pc = "select"
    /\ inside_geom' = [i \in 1..Len(fgl.positions) |-> TRUE]
    /\ idx' = np_where(inside_geom', Len(fgl.positions))
    /\ pc' = "catalog_regions"
    /\ UNCHANGED <<geom, some_region, crab_region, regions, mask_map,
                   mask_map_catalog, raised, fgl, exclusion_radius,
                   sigVars, ioVars>>

\* inside_geom = geom.contains(fgl.positions)
\* idx = np.where(inside_geom)[0]
SelectSources ==
    /\ pc = "select"
    /\ inside_geom' = [i \in 1..Len(fgl.positions) |->
                          geom_contains(geom, fgl.positions[i])]
    /\ idx' = np_where(inside_geom', Len(fgl.positions))
    /\ pc' = "catalog_regions"
    /\ UNCHANGED <<geom, some_region, crab_region, regions, mask_map,
                   mask_map_catalog, raised, fgl, exclusion_radius,
                   sigVars, ioVars>>

\* exclusion_radius = Angle(...)
\* regions = [CircleSkyRegion(fgl[i].position, exclusion_radius) for i in idx]
CatalogRegions ==
    /\ pc = "catalog_regions"
    /\ \E r \in Radii :
          /\ exclusion_radius' = r
          /\ regions' = [k \in 1..Len(idx) |->
                            CircleSkyRegion(fgl.positions[idx[k] + 1], r)]
    /\ pc' = "catalog_mask"
    /\ UNCHANGED <<geom, some_region, crab_region, mask_map,
                   mask_map_catalog, raised, fgl, inside_geom, idx,
                   sigVars, ioVars>>

\* A slip of CatalogMask: the inside flag left at its default.
CatalogMaskInside ==
    /\ pc = "catalog_mask"
    /\ mask_map_catalog' =
            Map_from_geom(geom, region_mask(geom, regions, TRUE))
    /\ pc' = "combine"
    /\ UNCHANGED <<geom, some_region, crab_region, regions, mask_map,
                   raised, catalogVars, sigVars, ioVars>>

\* mask_data = geom.region_mask(regions, inside=False)
\* mask_map_catalog = Map.from_geom(geom, data=mask_data)
CatalogMask ==
    /\ pc = "catalog_mask"
    /\ mask_map_catalog' =
            Map_from_geom(geom, region_mask(geom, regions, FALSE))
    /\ pc' = "combine"
    /\ UNCHANGED <<geom, some_region, crab_region, regions, mask_map,
                   raised, catalogVars, sigVars, ioVars>>

\* numpy.add on two boolean cells.
np_add(a, b) == bool_as_number(a) + bool_as_number(b) # 0

\* A slip of CombineMasks: mask_map += mask_map_catalog.
CombineMasksAdd(next) ==
    /\ pc = "combine"
    /\ mask_map' =
          IF mask_map.geom = mask_map_catalog.geom
          THEN [mask_map EXCEPT !.data =
                    [p \in get_idx(mask_map.geom) |->
                        np_add(mask_map.data[p], mask_map_catalog.data[p])]]
          ELSE mask_map
    /\ raised' =
          IF mask_map.geom = mask_map_catalog.geom
          THEN "none" ELSE "ShapeMismatch"
    /\ pc' = IF mask_map.geom = mask_map_catalog.geom
             THEN next ELSE "aborted"
    /\ UNCHANGED <<geom, some_region, crab_region, regions,
                   mask_map_catalog, catalogVars, sigVars, ioVars>>

\* A slip of CombineMasks: mask_map.data *= mask_map_catalog.data, the
\* arrays multiplied without the maps' comparison of geometries; numpy
\* repeats an axis of length 1 of the right-hand array, and raises only
\* when another axis differs.
CombineMasksData(next) ==
    /\ pc = "combine"
    /\ LET a == mask_map.geom.npix
           b == mask_map_catalog.geom.npix
           fits_onto == \A i \in 1..2 : b[i] = a[i] \/ b[i] = 1
           at(p) == <<IF b[1] = 1 THEN 0 ELSE p[1],
                      IF b[2] = 1 THEN 0 ELSE p[2]>>
       IN  /\ mask_map' =
                 IF fits_onto
                 THEN [mask_map EXCEPT !.data =
                          [p \in get_idx(mask_map.geom) |->
                              np_multiply(mask_map.data[p],
                                          mask_map_catalog.data[at(p)])]]
                 ELSE mask_map
           /\ raised' = IF fits_onto THEN "none" ELSE "ValueError"
           /\ pc' = IF fits_onto THEN next ELSE "aborted"
    /\ UNCHANGED <<geom, some_region, crab_region, regions,
                   mask_map_catalog, catalogVars, sigVars, ioVars>>

\* A slip of CombineMasks: mask_map_catalog *= mask_map.
CombineMasksSwapped(next) ==
    /\ pc = "combine"
    /\ LET r == Map__imul__(mask_map_catalog, mask_map)
       IN  /\ mask_map_catalog' = r.value
           /\ raised' = r.raised
           /\ pc' = IF r.raised = "none" THEN next ELSE "aborted"
    /\ UNCHANGED <<geom, some_region, crab_region, regions,
                   mask_map, catalogVars, sigVars, ioVars>>

\* mask_map *= mask_map_catalog; the run goes on at `next`, or stops at
\* the exception the cell raises.
CombineMasks(next) ==
    /\ pc = "combine"
    /\ LET r == Map__imul__(mask_map, mask_map_catalog)
       IN  /\ mask_map' = r.value
           /\ raised' = r.raised
           /\ pc' = IF r.raised = "none" THEN next ELSE "aborted"
    /\ UNCHANGED <<geom, some_region, crab_region, regions,
                   mask_map_catalog, catalogVars, sigVars, ioVars>>

regionVars == <<geom, some_region, crab_region, regions, mask_map,
                mask_map_catalog, raised>>

\* estimator = ExcessMapEstimator(...); result = estimator.run(dataset)
RunEstimator ==
    /\ pc = "estimate"
    /\ \E m \in FloatMaps : sqrt_ts' = m
    /\ pc' = "threshold"
    /\ UNCHANGED <<regionVars, catalogVars, threshold,
                   mask_map_significance, invalid_pixels, ioVars>>

\* A slip of ApplyThreshold: result["sqrt_ts"] <= threshold.
ApplyThresholdLeq ==
    /\ pc = "threshold"
    /\ \E t \in Levels :
          /\ threshold' = t
          /\ mask_map_significance' =
                [geom |-> sqrt_ts.geom, dtype |-> "bool",
                 data |-> [p \in get_idx(sqrt_ts.geom) |->
                              np_less(sqrt_ts.data[p], t + 1)]]
    /\ pc' = "invalid"
    /\ UNCHANGED <<regionVars, catalogVars, sqrt_ts, invalid_pixels,
                   ioVars>>

\* mask_map_significance = result["sqrt_ts"] < threshold
\* (the tutorial's threshold is 5.0)
ApplyThreshold ==
    /\ pc = "threshold"
    /\ \E t \in Levels :
          /\ threshold' = t
          /\ mask_map_significance' =
                [geom |-> sqrt_ts.geom, dtype |-> "bool",
                 data |-> [p \in get_idx(sqrt_ts.geom) |->
                              np_less(sqrt_ts.data[p], t)]]
    /\ pc' = "invalid"
    /\ UNCHANGED <<regionVars, catalogVars, sqrt_ts, invalid_pixels,
                   ioVars>>

\* A slip of OverrideInvalid: the invalid pixels are found and the mask
\* is not touched.
OverrideInvalidSkipped ==
    /\ pc = "invalid"
    /\ invalid_pixels' =
          [p \in get_idx(sqrt_ts.geom) |-> np_isnan(sqrt_ts.data[p])]
    /\ pc' = "done"
    /\ UNCHANGED <<regionVars, catalogVars, sqrt_ts, threshold,
                   mask_map_significance, ioVars>>

\* invalid_pixels = np.isnan(result["sqrt_ts"].data)
\* mask_map_significance.data[invalid_pixels] = True
OverrideInvalid ==
    /\ pc = "invalid"
    /\ invalid_pixels' =
          [p \in get_idx(sqrt_ts.geom) |-> np_isnan(sqrt_ts.data[p])]
    /\ mask_map_significance' =
          [mask_map_significance EXCEPT !.data =
              [p \in get_idx(mask_map_significance.geom) |->
                  IF invalid_pixels'[p]
                  THEN TRUE
                  ELSE mask_map_significance.data[p]]]
    /\ pc' = "done"
    /\ UNCHANGED <<regionVars, catalogVars, sqrt_ts, threshold, ioVars>>

\* A slip of SaveMask: mask_map_int = mask_map, the same map under a
\* second name, so that the cast changes mask_map too.
SaveMaskNoCopy ==
    /\ pc = "save"
    /\ mask_map_int' = astype_int(mask_map)
    /\ mask_map' = mask_map_int'
    /\ fits' = Map_write(mask_map_int')
    /\ pc' = "read"
    /\ UNCHANGED <<geom, some_region, crab_region, regions,
                   mask_map_catalog, raised, catalogVars, sigVars>>

\* mask_map_int = mask_map.copy()
\* mask_map_int.data = mask_map_int.data.astype(int)
\* mask_map_int.write("exclusion_mask.fits", overwrite="True")
SaveMask ==
    /\ pc = "save"
    /\ mask_map_int' = astype_int(Map_copy(mask_map))
    /\ fits' = Map_write(mask_map_int')
    /\ pc' = "read"
    /\ UNCHANGED <<regionVars, catalogVars, sigVars>>

\* A slip of ReadMask: the cast back to bool is left out.
ReadMaskNoCast ==
    /\ pc = "read"
    /\ mask_map' = Map_read(fits)
    /\ pc' = "done"
    /\ UNCHANGED <<geom, some_region, crab_region, regions,
                   mask_map_catalog, raised, catalogVars, sigVars, ioVars>>

\* mask_map = Map.read("exclusion_mask.fits")
\* mask_map.data = mask_map.data.astype(bool)
ReadMask ==
    /\ pc = "read"
    /\ mask_map' = astype_bool(Map_read(fits))
    /\ pc' = "done"
    /\ UNCHANGED <<geom, some_region, crab_region, regions,
                   mask_map_catalog, raised, catalogVars, sigVars, ioVars>>

\* ------------------------------------------ masks from regions, combined
InitRegions ==
    /\ pc = "geometry"
    /\ geom = None /\ some_region = None /\ crab_region = None
    /\ regions = None /\ mask_map = None /\ fgl = None
    /\ inside_geom = None /\ idx = None /\ exclusion_radius = None
    /\ mask_map_catalog = None /\ raised = "none"
    /\ sqrt_ts = None /\ threshold = None /\ mask_map_significance = None
    /\ invalid_pixels = None /\ mask_map_int = None /\ fits = None

NextRegions ==
    \/ DefineGeometry
    \/ CreateRegions
    \/ CreateMaskMap
    \/ LoadCatalog
    \/ SelectSources
    \/ CatalogRegions
    \/ CatalogMask
    \/ CombineMasks("done")

SpecRegions == InitRegions /\ [][NextRegions]_vars

\* ------------------------------------------------- combining any masks
\* Every boolean mask over every grid.
BoolMaps ==
    UNION {{Map_from_geom(g, d) : d \in [get_idx(g) -> BOOLEAN]} :
              g \in Geoms}

\* The combination cell run on any two masks, each built on some grid;
\* then the catalog mask is rebuilt on the current grid from the current
\* regions and combined again.
InitCombine ==
    /\ pc = "combine"
    /\ mask_map \in BoolMaps
    /\ mask_map_catalog \in BoolMaps
    /\ geom = mask_map_catalog.geom
    /\ regions \in SeqsUpTo(Circles, 1)
    /\ some_region = None /\ crab_region = None /\ fgl = None
    /\ inside_geom = None /\ idx = None /\ exclusion_radius = None
    /\ raised = "none"
    /\ sqrt_ts = None /\ threshold = None /\ mask_map_significance = None
    /\ invalid_pixels = None /\ mask_map_int = None /\ fits = None

NextCombine ==
    \/ CombineMasks("catalog_mask")
    \/ CatalogMask

SpecCombine == InitCombine /\ [][NextCombine]_vars

\* ------------------------------------------- claims on combining masks
\* The cell-by-cell AND of two boolean grids over the cells of g.
CellAnd(g, a, b) == [p \in get_idx(g) |-> a[p] /\ b[p]]

\* The boolean masks over the grid g.
MasksOn(g) == {Map_from_geom(g, d) : d \in [get_idx(g) -> BOOLEAN]}

\* C2: combining two masks on the same grid leaves in mask_map the
\* cell-by-cell AND of the two, on that grid; the combination of A with B
\* equals that of B with A, and combining A with B and then with any
\* third mask C equals combining A with the combination of B and C.
C2_CombineIsAnd ==
    /\ [][(pc = "combine" /\ mask_map.geom = mask_map_catalog.geom) =>
            /\ pc' = "catalog_mask"
            /\ mask_map'.geom = mask_map.geom
            /\ mask_map'.data =
                  CellAnd(mask_map.geom, mask_map.data,
                          mask_map_catalog.data)]_vars
    /\ [](mask_map.geom = mask_map_catalog.geom =>
            /\ Map__imul__(mask_map, mask_map_catalog).value =
                  Map__imul__(mask_map_catalog, mask_map).value
            /\ \A C \in MasksOn(mask_map.geom) :
                  Map__imul__(Map__imul__(mask_map, mask_map_catalog).value,
                              C).value =
                  Map__imul__(mask_map,
                              Map__imul__(mask_map_catalog, C).value).value)

\* C2 witness: a combination has run; mask_map has a cell excluded that
\* the right-hand mask keeps, a cell both exclude, and a kept cell.
C2_Witness ==
    /\ pc = "catalog_mask"
    /\ mask_map.geom = mask_map_catalog.geom
    /\ \E p, q \in get_idx(mask_map.geom) :
          /\ p # q
          /\ ~mask_map.data[p] /\ mask_map_catalog.data[p]
          /\ ~mask_map.data[q] /\ ~mask_map_catalog.data[q]
    /\ \E p \in get_idx(mask_map.geom) : mask_map.data[p]

\* C3: combining two masks whose grids differ in shape raises
\* ShapeMismatch, stops the run and leaves both masks as they were.
C3_ShapeMismatch ==
    [][(pc = "combine" /\ mask_map.geom.npix # mask_map_catalog.geom.npix)
        => /\ raised' = "ShapeMismatch"
           /\ pc' = "aborted"
           /\ mask_map' = mask_map
           /\ mask_map_catalog' = mask_map_catalog]_vars

\* C3 witness: the run stopped at a combination of masks of two shapes.
C3_Witness ==
    /\ pc = "aborted"
    /\ raised = "ShapeMismatch"
    /\ mask_map.geom.npix # mask_map_catalog.geom.npix

\* C9: no step turns an excluded cell of mask_map back to kept or moves
\* mask_map to another grid, and a combination leaves its right-hand
\* operand mask_map_catalog as it was.
C9_MonotoneExclusion ==
    [][/\ mask_map'.geom = mask_map.geom
       /\ \A p \in get_idx(mask_map.geom) :
             mask_map.data[p] = FALSE => mask_map'.data[p] = FALSE
       /\ pc = "combine" => mask_map_catalog' = mask_map_catalog]_vars

\* C9 witness: a combination has run with the catalog mask of the current
\* regions; a cell that mask keeps is still excluded in mask_map, and
\* another cell is kept.
C9_Witness ==
    /\ pc = "catalog_mask"
    /\ \E p, q \in get_idx(mask_map.geom) :
          /\ ~mask_map.data[p] /\ mask_map_catalog.data[p]
          /\ mask_map.data[q]
    /\ mask_map_catalog.data = region_mask(geom, regions, FALSE)

\* ------------------------------------------- masks from significance
InitSignificance ==
    /\ pc = "estimate"
    /\ geom = None /\ some_region = None /\ crab_region = None
    /\ regions = None /\ mask_map = None /\ fgl = None
    /\ inside_geom = None /\ idx = None /\ exclusion_radius = None
    /\ mask_map_catalog = None /\ raised = "none"
    /\ sqrt_ts = None /\ threshold = None /\ mask_map_significance = None
    /\ invalid_pixels = None /\ mask_map_int = None /\ fits = None

NextSignificance ==
    \/ RunEstimator
    \/ ApplyThreshold
    \/ OverrideInvalid

SpecSignificance == InitSignificance /\ [][NextSignificance]_vars

\* ------------------------------------------- writing and reading masks
InitIO ==
    /\ pc = "save"
    /\ mask_map \in BoolMaps
    /\ geom = mask_map.geom
    /\ some_region = None /\ crab_region = None /\ regions = None
    /\ fgl = None /\ inside_geom = None /\ idx = None
    /\ exclusion_radius = None /\ mask_map_catalog = None
    /\ raised = "none"
    /\ sqrt_ts = None /\ threshold = None /\ mask_map_significance = None
    /\ invalid_pixels = None /\ mask_map_int = None /\ fits = None

NextIO ==
    \/ SaveMask
    \/ ReadMask

SpecIO == InitIO /\ [][NextIO]_vars

\* -------------------------------------- claims on masks from regions
\* Pixel p of grid g lies inside at least one of the regions.
InsideAny(g, regs, p) ==
    \E k \in 1..Len(regs) : region_contains(regs[k], pix_to_coord(g, p))

\* C1: the mask region_mask(regions, inside=False) builds is False in a
\* cell exactly when the cell's sky position lies inside some region of
\* the list, for the manual list (a box and a circle, which may overlap)
\* and for the catalog list (any number of circles); an empty list gives
\* a mask that is True everywhere.
C1_RegionMask ==
    /\ pc \in {"catalog", "select", "catalog_regions"} =>
          /\ DOMAIN mask_map.data = get_idx(geom)
          /\ \A p \in get_idx(geom) :
                mask_map.data[p] = ~InsideAny(geom, regions, p)
    /\ pc \in {"combine", "done"} =>
          /\ DOMAIN mask_map_catalog.data = get_idx(geom)
          /\ \A p \in get_idx(geom) :
                mask_map_catalog.data[p] = ~InsideAny(geom, regions, p)
          /\ regions = <<>> =>
                \A p \in get_idx(geom) : mask_map_catalog.data[p] = TRUE

\* C1 witness: a mask built from two overlapping regions, with a cell
\* inside both (False) and a cell inside neither (True).
C1_Witness ==
    /\ pc = "catalog"
    /\ \E p \in get_idx(geom) :
          /\ region_contains(some_region, pix_to_coord(geom, p))
          /\ region_contains(crab_region, pix_to_coord(geom, p))
          /\ mask_map.data[p] = FALSE
    /\ \E q \in get_idx(geom) : mask_map.data[q] = TRUE

\* C7: the mask of a concatenation is the AND of the masks of its parts,
\* for every way of cutting the list of all regions (the manual ones
\* followed by the catalog ones) in two; and the manual mask combined
\* with the catalog mask is the mask of all regions together.
C7_Concatenation ==
    pc \in {"catalog_mask", "combine", "done"} =>
        LET R1 == <<some_region, crab_region>>
            all == R1 \o regions
        IN  /\ \A k \in 0..Len(all) :
                  region_mask(geom, all, FALSE) =
                      CellAnd(geom,
                          region_mask(geom, SubSeq(all, 1, k), FALSE),
                          region_mask(geom, SubSeq(all, k + 1, Len(all)),
                                      FALSE))
            /\ pc = "done" =>
                  /\ mask_map.geom = geom
                  /\ mask_map.data = region_mask(geom, all, FALSE)

\* C7 witness: after the combination, one cell is excluded by a catalog
\* region only, one by a manual region only, and one is kept.
C7_Witness ==
    /\ pc = "done"
    /\ LET R1 == <<some_region, crab_region>>
       IN  /\ \E p \in get_idx(geom) :
                 InsideAny(geom, regions, p) /\ ~InsideAny(geom, R1, p)
           /\ \E p \in get_idx(geom) :
                 ~InsideAny(geom, regions, p) /\ InsideAny(geom, R1, p)
           /\ \E p \in get_idx(geom) : mask_map.data[p] = TRUE

\* The squared distance of two sky positions.
Dist2(a, b) == (a[1] - b[1]) * (a[1] - b[1]) + (a[2] - b[2]) * (a[2] - b[2])

\* C8: the catalog regions are one circle of the radius exclusion_radius
\* per source that passes geom.contains, in catalog order, and no other;
\* the catalog mask excludes exactly the cells closer than that radius to
\* such a source, so a source off the grid excludes nothing.
C8_CatalogMask ==
    pc \in {"catalog_mask", "combine", "done"} =>
        LET pos == fgl.positions
            kept == {i \in 1..Len(pos) : geom_contains(geom, pos[i])}
        IN  /\ Len(regions) = Cardinality(kept)
            /\ \A k \in 1..Len(regions) :
                  /\ idx[k] + 1 \in kept
                  /\ regions[k] =
                        CircleSkyRegion(pos[idx[k] + 1], exclusion_radius)
            /\ \A j, k \in 1..Len(regions) : j < k => idx[j] < idx[k]
            /\ pc # "catalog_mask" =>
                  \A p \in get_idx(geom) :
                      mask_map_catalog.data[p] =
                          ~(\E i \in kept :
                              Dist2(pix_to_coord(geom, p), pos[i])
                                  < exclusion_radius * exclusion_radius)

\* C8 witness: a catalog with a source on the grid and a source off the
\* grid; a cell within the radius of the source off the grid is kept.
C8_Witness ==
    /\ pc = "done"
    /\ Len(regions) = 1
    /\ Len(fgl.positions) = 2
    /\ \E i \in 1..Len(fgl.positions), p \in get_idx(geom) :
          /\ ~geom_contains(geom, fgl.positions[i])
          /\ Dist2(pix_to_coord(geom, p), fgl.positions[i])
                < exclusion_radius * exclusion_radius
          /\ mask_map_catalog.data[p] = TRUE

\* --------------------------------- claims on masks from significance
\* C6: after the threshold comparison, and after the override that
\* follows it, a cell whose significance v is a number is kept exactly
\* when v < threshold and excluded when v >= threshold, equality included.
C6_ThresholdRule ==
    pc \in {"invalid", "done"} =>
        /\ mask_map_significance.geom = sqrt_ts.geom
        /\ \A p \in get_idx(sqrt_ts.geom) :
              ~sqrt_ts.data[p].isnan =>
                  /\ mask_map_significance.data[p] =
                        (sqrt_ts.data[p].val < threshold)
                  /\ sqrt_ts.data[p].val >= threshold =>
                        mask_map_significance.data[p] = FALSE

\* C6 witness: the mask is final; a cell at the threshold is excluded
\* and a cell below it is kept.
C6_Witness ==
    /\ pc = "done"
    /\ \E p, q \in get_idx(sqrt_ts.geom) :
          /\ sqrt_ts.data[p] = Float(threshold)
          /\ mask_map_significance.data[p] = FALSE
          /\ ~sqrt_ts.data[q].isnan
          /\ sqrt_ts.data[q].val < threshold
          /\ mask_map_significance.data[q] = TRUE

\* C4: once the comparison and the override have both run, every cell
\* whose significance is NaN is kept, whatever the threshold.
C4_NaNKept ==
    pc = "done" =>
        \A p \in get_idx(sqrt_ts.geom) :
            sqrt_ts.data[p].isnan => mask_map_significance.data[p] = TRUE

\* C4 witness: the mask is final, of a map with a NaN cell and a cell
\* above the threshold, which is excluded.
C4_Witness ==
    /\ pc = "done"
    /\ \E p, q \in get_idx(sqrt_ts.geom) :
          /\ sqrt_ts.data[p].isnan
          /\ invalid_pixels[p]
          /\ ~sqrt_ts.data[q].isnan
          /\ sqrt_ts.data[q].val > threshold
          /\ mask_map_significance.data[q] = FALSE

\* --------------------------------- claims on writing and reading masks
\* C5: the file written holds the grid's shape and only the values 0
\* and 1, the write leaves mask_map a boolean mask, and the mask read
\* back and cast to bool is on the same grid and equals mask_map cell
\* for cell.
C5_RoundTrip ==
    /\ [][pc = "save" =>
            /\ fits'.naxis = mask_map.geom.npix
            /\ Len(fits'.data) = Cardinality(get_idx(mask_map.geom))
            /\ \A n \in 1..Len(fits'.data) : fits'.data[n] \in {0, 1}
            /\ mask_map'.dtype = "bool"]_vars
    /\ [][pc = "read" =>
            /\ mask_map.dtype = "bool"
            /\ mask_map'.dtype = "bool"
            /\ mask_map'.geom = mask_map.geom
            /\ DOMAIN mask_map'.data = get_idx(mask_map.geom)
            /\ \A p \in get_idx(mask_map.geom) :
                  mask_map'.data[p] = mask_map.data[p]]_vars

\* C5 witness: a mask on a grid wider than high, with a kept and an
\* excluded cell, has been written and read back.
C5_Witness ==
    /\ pc = "done"
    /\ mask_map.geom.npix[1] > mask_map.geom.npix[2]
    /\ mask_map.dtype = "bool"
    /\ \E p, q \in get_idx(mask_map.geom) :
          mask_map.data[p] /\ ~mask_map.data[q]

\* C10: the save step leaves mask_map as it was, boolean, and makes
\* mask_map_int the 0/1 copy of it on the same grid; after the read step
\* mask_map is boolean and True exactly where the copy holds 1.
C10_SaveKeepsMask ==
    /\ [][pc = "save" =>
            /\ mask_map'.dtype = "bool"
            /\ mask_map' = mask_map
            /\ mask_map_int'.dtype = "int"
            /\ mask_map_int'.geom = mask_map.geom
            /\ \A p \in get_idx(mask_map.geom) :
                  mask_map_int'.data[p] = IF mask_map.data[p] THEN 1 ELSE 0
          ]_vars
    /\ [](pc = "done" =>
            /\ mask_map.dtype = "bool"
            /\ mask_map_int.dtype = "int"
            /\ \A p \in get_idx(mask_map.geom) :
                  mask_map.data[p] = (mask_map_int.data[p] = 1))

\* C10 witness: a mask with a kept and an excluded cell has been saved
\* and not read back yet; the copy is integer-valued, the mask boolean.
C10_Witness ==
    /\ pc = "read"
    /\ mask_map.dtype = "bool"
    /\ mask_map_int.dtype = "int"
    /\ \E p, q \in get_idx(mask_map.geom) :
          /\ mask_map.data[p] /\ mask_map_int.data[p] = 1
          /\ ~mask_map.data[q] /\ mask_map_int.data[q] = 0

====
